---- MODULE Spec2Model ----
(***************************************************************************)
(* Model of the "hacker stories" component exercise.  Two builds of the    *)
(* same component exist: src/src/App.jsx and src/unnamed/part_000.  They   *)
(* differ in one place only: the parameter list of the Item component.     *)
(*                                                                         *)
(* Strings that the code inspects character by character (titles, the      *)
(* search term, stored values) are sequences of one-character strings.     *)
(* React is modelled by what it guarantees to this code: a state setter    *)
(* re-renders the component, a render recomputes the values derived from   *)
(* state, effects whose dependencies changed are queued at commit (child   *)
(* before parent) and are flushed before the next event is handled.        *)
(***************************************************************************)
EXTENDS Integers, Sequences, FiniteSets

\* ------------------------------------------------------------------ bounds

\* How many entries of TermList the user may type / the store may hold.
MaxTerms == 6

\* Longest collection handed to the removal filter on its own.
MaxLen == 3

\* ----------------------------------------------------------------- strings

sReact == <<"R", "e", "a", "c", "t">>
sRedux == <<"R", "e", "d", "u", "x">>

TermList ==
  << <<>>,
     <<"R", "e", "d">>,
     <<"R", "E", "D">>,
     <<"x", "y", "z">>,
     sReact,
     <<"e">>,
     <<"r", "e", "d", "u", "x">>,
     <<"T">> >>

Terms ==
  {TermList[i] : i \in 1..(IF MaxTerms < Len(TermList) THEN MaxTerms ELSE Len(TermList))}

\* String.prototype.toLowerCase, one character.
toLowerChar(c) ==
  CASE c = "R" -> "r"
    [] c = "E" -> "e"
    [] c = "D" -> "d"
    [] c = "A" -> "a"
    [] c = "C" -> "c"
    [] c = "T" -> "t"
    [] c = "U" -> "u"
    [] c = "X" -> "x"
    [] c = "Y" -> "y"
    [] c = "Z" -> "z"
    [] OTHER -> c

\* String.prototype.toLowerCase.
toLowerCase(s) == [i \in 1..Len(s) |-> toLowerChar(s[i])]

\* String.prototype.includes: t occurs in s at some offset.
includes(s, t) ==
  \E off \in 0..(Len(s) - Len(t)) : SubSeq(s, off + 1, off + Len(t)) = t

\* Array.prototype.filter: a left-to-right pass keeping the elements that
\* pass; keep[i] is the callback's result for arr[i].
filter(arr, keep) ==
  LET F[i \in 0..Len(arr)] ==
        IF i = 0 THEN <<>>
        ELSE IF keep[i] THEN Append(F[i - 1], arr[i]) ELSE F[i - 1]
  IN F[Len(arr)]

\* ------------------------------------------------------------------- items

Story(t, u, a, nc, pts, id) ==
  [title |-> t, url |-> u, author |-> a, num_comments |-> nc, points |-> pts,
   objectID |-> id]

initialStories ==
  << Story(sReact, "https://reactjs.org/", "Jordan Walke", 3, 4, 0),
     Story(sRedux, "https://redux.js.org/", "Dan Abramov, Andrew Clark", 2, 5, 1) >>

\* Items the removal filter is tried on by itself: the two seeds, an item
\* sharing objectID 1 with a seed, and an item with an objectID of its own.
ItemPool ==
  { initialStories[1], initialStories[2],
    Story(<<"R", "E", "D">>, "https://red.example/", "Nobody", 0, 0, 1),
    Story(<<"T", "e", "a">>, "https://tea.example/", "Nobody", 1, 1, 2) }

BoundedSeq(S, n) == UNION {[1..k -> S] : k \in 0..n}

\* ------------------------------------------------------------------- state

VARIABLES
  variant,         \* which build runs: "App.jsx" or "part_000"
  localStorage,    \* the browser store: a function from the keys it holds
  mounted,         \* whether App is mounted
  key,             \* useStorageState's key argument at the last render
  value,           \* useStorageState's state cell (App's searchTerm)
  stories,         \* App's stories state cell
  list,            \* the list prop handed to List at the last render
  inputRefCurrent, \* whether inputRef.current holds the input element
  effectDeps,      \* dependency arrays committed by the last render
  pendingEffects,  \* effects queued by the last commit, in flush order
  focusCalls,      \* focus() calls made since the mount
  lastEvent,       \* history: the event handled last
  lastWrite,       \* history: the last setItem call, <<key, value>>
  call             \* the removal filter applied by itself (SpecPure only)

vars ==
  << variant, localStorage, mounted, key, value, stories, list, inputRefCurrent,
     effectDeps, pendingEffects, focusCalls, lastEvent, lastWrite, call >>

Variants == {"App.jsx", "part_000"}
Keys == {"search", "key", "draft"}

\* ----------------------------------------------------------- localStorage

hasItem(store, k) == k \in DOMAIN store

setItem(store, k, v) ==
  [x \in (DOMAIN store) \cup {k} |-> IF x = k THEN v ELSE store[x]]

Stores == UNION {[D -> Terms] : D \in SUBSET Keys}

\* --------------------------------------------------------- useStorageState

\* React.useState(localStorage.getItem('key') || initialState): the store is
\* asked for the literal 'key', and a missing (null) or empty (falsy) result
\* gives initialState.
useStorageStateInitial(store, k, initialState) ==
  IF hasItem(store, "key") /\ store["key"] # <<>> THEN store["key"] ELSE initialState

\* Variant: the dependency array is [value] only.
storageEffectDue_valueOnly(v, k) == effectDeps.storage[1] # v

\* The dependency array [value, key] compared with the one committed before.
storageEffectDue(v, k) == effectDeps.storage # <<v, k>>

\* -------------------------------------------------------------------- App

AppKey == "search"
AppInitialState == sReact
isFocused == TRUE

\* Variant: only the first element with the objectID is taken out.
removeFilter_firstOnly(arr, item) ==
  LET hits == {i \in 1..Len(arr) : arr[i].objectID = item.objectID}
  IN IF hits = {} THEN arr
     ELSE LET f == CHOOSE i \in hits : \A j \in hits : i <= j
          IN SubSeq(arr, 1, f - 1) \o SubSeq(arr, f + 1, Len(arr))

\* Variant: the kept elements are collected in reverse order.
removeFilter_reversed(arr, item) ==
  LET F[i \in 0..Len(arr)] ==
        IF i = 0 THEN <<>>
        ELSE IF item.objectID # arr[i].objectID THEN <<arr[i]>> \o F[i - 1]
             ELSE F[i - 1]
  IN F[Len(arr)]

\* stories.filter((story) => item.objectID !== story.objectID)
removeFilter(arr, item) ==
  filter(arr, [i \in 1..Len(arr) |-> item.objectID # arr[i].objectID])

\* Variant: the search term is not lower-cased.
searchedStories_noFold(arr, searchTerm) ==
  filter(arr, [i \in 1..Len(arr) |-> includes(toLowerCase(arr[i].title), searchTerm)])

\* Variant: an empty search term matches nothing.
searchedStories_rejectsEmpty(arr, searchTerm) ==
  filter(arr, [i \in 1..Len(arr) |->
                 /\ searchTerm # <<>>
                 /\ includes(toLowerCase(arr[i].title), toLowerCase(searchTerm))])

\* stories.filter((story) =>
\*   story.title.toLowerCase().includes(searchTerm.toLowerCase()))
searchedStories(arr, searchTerm) ==
  filter(arr, [i \in 1..Len(arr) |->
                 includes(toLowerCase(arr[i].title), toLowerCase(searchTerm))])

\* Variant: the effect has no dependency array and runs after every render.
focusEffectDue_everyRender == TRUE

\* InputWithLabel's effect has the dependency array [isFocused].
focusEffectDue == effectDeps.focus # <<isFocused>>

\* Whether onRemoveItem is bound inside Item: part_000 destructures it from
\* the props, App.jsx's Item takes ({item}) only and leaves the name free.
itemBindsOnRemoveItem(v) == v = "part_000"

NoEvent == [type |-> "none", arg |-> <<>>, error |-> "none"]
Event(t, a, e) == [type |-> t, arg |-> a, error |-> e]

\* A re-render of App with state (v, s) and hook key k, and its commit.
Render(v, s, k) ==
  /\ list' = searchedStories(s, v)
  /\ pendingEffects' =
       (IF focusEffectDue THEN <<"focus">> ELSE <<>>)
         \o (IF storageEffectDue(v, k) THEN <<"storage">> ELSE <<>>)
  /\ effectDeps' = [storage |-> <<v, k>>, focus |-> <<isFocused>>]
  /\ inputRefCurrent' = TRUE

Idle == mounted /\ pendingEffects = <<>>

\* The first render of App: both state cells are initialised, the input
\* element is attached to the ref, every effect is queued.
Mount ==
  /\ ~mounted
  /\ mounted' = TRUE
  /\ key' = AppKey
  /\ value' = useStorageStateInitial(localStorage, AppKey, AppInitialState)
  /\ stories' = initialStories
  /\ list' = searchedStories(stories', value')
  /\ inputRefCurrent' = TRUE
  /\ effectDeps' = [storage |-> <<value', key'>>, focus |-> <<isFocused>>]
  /\ pendingEffects' = <<"focus", "storage">>
  /\ focusCalls' = 0
  /\ lastEvent' = Event("mount", <<>>, "none")
  /\ UNCHANGED <<variant, localStorage, lastWrite, call>>

\* The page is left or reloaded: component state is dropped, the store stays.
Unmount ==
  /\ Idle
  /\ mounted' = FALSE
  /\ key' = AppKey
  /\ value' = <<>>
  /\ stories' = <<>>
  /\ list' = <<>>
  /\ inputRefCurrent' = FALSE
  /\ effectDeps' = [storage |-> <<>>, focus |-> <<>>]
  /\ pendingEffects' = <<>>
  /\ focusCalls' = 0
  /\ lastEvent' = Event("unmount", <<>>, "none")
  /\ UNCHANGED <<variant, localStorage, lastWrite, call>>

\* handleSearch: setSearchTerm(event.target.value).  Setting the value the
\* cell already holds does not re-render.
handleSearch(text) ==
  /\ Idle
  /\ value' = text
  /\ lastEvent' = Event("change", text, "none")
  /\ IF text = value
       THEN UNCHANGED <<list, pendingEffects, effectDeps, inputRefCurrent>>
       ELSE Render(text, stories, key)
  /\ UNCHANGED <<variant, localStorage, mounted, key, stories, focusCalls,
                 lastWrite, call>>

\* Variant: the removal also clears the search term.
handleRemoveStory_clearsTerm(item) ==
  /\ stories' = removeFilter(stories, item)
  /\ value' = <<>>
  /\ Render(<<>>, stories', key)
  /\ UNCHANGED <<variant, localStorage, mounted, key, focusCalls, lastWrite>>

\* handleRemoveStory: setStories(stories.filter(...)); the new array always
\* re-renders.
handleRemoveStory(item) ==
  /\ stories' = removeFilter(stories, item)
  /\ Render(value, stories', key)
  /\ UNCHANGED <<variant, localStorage, mounted, key, value, focusCalls,
                 lastWrite>>

\* The Dismiss button of row i: onClick={() => onRemoveItem(item)}.  Where
\* Item does not bind onRemoveItem the call throws a ReferenceError and no
\* state setter runs.
clickDismiss(i) ==
  /\ Idle
  /\ i \in 1..Len(list)
  /\ IF itemBindsOnRemoveItem(variant)
       THEN /\ handleRemoveStory(list[i])
            /\ lastEvent' = Event("click", list[i], "none")
            /\ UNCHANGED call
       ELSE /\ lastEvent' = Event("click", list[i], "ReferenceError")
            /\ UNCHANGED <<variant, localStorage, mounted, key, value, stories,
                           list, inputRefCurrent, effectDeps, pendingEffects,
                           focusCalls, lastWrite, call>>

\* InputWithLabel's effect: if (isFocused && inputRef.current) focus().
focusEffect ==
  /\ mounted
  /\ pendingEffects # <<>>
  /\ Head(pendingEffects) = "focus"
  /\ pendingEffects' = Tail(pendingEffects)
  /\ focusCalls' = IF isFocused /\ inputRefCurrent THEN focusCalls + 1 ELSE focusCalls
  /\ UNCHANGED <<variant, localStorage, mounted, key, value, stories, list,
                 inputRefCurrent, effectDeps, lastEvent, lastWrite, call>>

\* useStorageState's effect: localStorage.setItem(key, value).
storageEffect ==
  /\ mounted
  /\ pendingEffects # <<>>
  /\ Head(pendingEffects) = "storage"
  /\ pendingEffects' = Tail(pendingEffects)
  /\ localStorage' = setItem(localStorage, key, value)
  /\ lastWrite' = <<key, value>>
  /\ UNCHANGED <<variant, mounted, key, value, stories, list, inputRefCurrent,
                 effectDeps, focusCalls, lastEvent, call>>

Init ==
  /\ variant \in Variants
  /\ localStorage \in Stores
  /\ mounted = FALSE
  /\ key = AppKey
  /\ value = <<>>
  /\ stories = <<>>
  /\ list = <<>>
  /\ inputRefCurrent = FALSE
  /\ effectDeps = [storage |-> <<>>, focus |-> <<>>]
  /\ pendingEffects = <<>>
  /\ focusCalls = 0
  /\ lastEvent = NoEvent
  /\ lastWrite = <<>>
  /\ call = [fn |-> "none"]

Next ==
  \/ Mount
  \/ Unmount
  \/ \E text \in Terms : handleSearch(text)
  \/ \E i \in 1..2 : clickDismiss(i)
  \/ focusEffect
  \/ storageEffect

Spec == Init /\ [][Next]_vars

\* -------------------------------------------------- the hook under a new key

\* useStorageState is written for any key: its owner re-renders it with
\* another key argument, the state cell keeps its value.
changeKey(k) ==
  /\ Idle
  /\ k # key
  /\ key' = k
  /\ Render(value, stories, k)
  /\ lastEvent' = Event("rekey", k, "none")
  /\ UNCHANGED <<variant, localStorage, mounted, value, stories, focusCalls,
                 lastWrite, call>>

NextHook ==
  \/ Next
  \/ \E k \in Keys : changeKey(k)

SpecHook == Init /\ [][NextHook]_vars

\* ------------------------------------------- the removal filter by itself

\* handleRemoveStory and the derivation over any collection: App (part_000)
\* at rest with the stories cell holding a collection drawn from ItemPool,
\* shown unfiltered; items are removed and the search term is changed.
InitPure ==
  /\ variant = "part_000"
  /\ mounted = TRUE
  /\ key = AppKey
  /\ value = <<>>
  /\ stories \in BoundedSeq(ItemPool, MaxLen)
  /\ list = searchedStories(stories, value)
  /\ localStorage = setItem(<<>>, AppKey, value)
  /\ inputRefCurrent = TRUE
  /\ effectDeps = [storage |-> <<value, key>>, focus |-> <<isFocused>>]
  /\ pendingEffects = <<>>
  /\ focusCalls = 1
  /\ lastEvent = NoEvent
  /\ lastWrite = <<AppKey, value>>
  /\ call = [fn |-> "none"]

pureRemove(item) ==
  /\ Idle
  /\ handleRemoveStory(item)
  /\ call' = [fn |-> "remove", input |-> stories, arg |-> item]
  /\ lastEvent' = Event("remove", item, "none")

NextPure ==
  \/ \E item \in ItemPool : pureRemove(item)
  \/ \E text \in Terms : handleSearch(text)
  \/ storageEffect

SpecPure == InitPure /\ [][NextPure]_vars

\* ------------------------------------------------------------------ claims

Range(q) == {q[i] : i \in 1..Len(q)}

\* out is the elements of L at the indices K, in L's order.
IsSelection(out, L, K) ==
  /\ Len(out) = Cardinality(K)
  /\ \A n \in 1..Len(out) :
       \E i \in K : Cardinality({j \in K : j <= i}) = n /\ out[n] = L[i]

CasePairs ==
  { <<"R", "r">>, <<"E", "e">>, <<"D", "d">>, <<"A", "a">>, <<"C", "c">>,
    <<"T", "t">>, <<"U", "u">>, <<"X", "x">>, <<"Y", "y">>, <<"Z", "z">> }

SameLetter(a, b) == a = b \/ <<a, b>> \in CasePairs \/ <<b, a>> \in CasePairs

\* t occurs in s when the case of letters is ignored.
ContainsIgnoringCase(s, t) ==
  \E off \in 0..(Len(s) - Len(t)) : \A n \in 1..Len(t) : SameLetter(s[off + n], t[n])

IsSubsequence(q, L) ==
  \E K \in SUBSET (1..Len(L)) : IsSelection(q, L, K)

SameId(L, item) == {i \in 1..Len(L) : L[i].objectID = item.objectID}

sRED == <<"R", "E", "D">>
sRed == <<"R", "e", "d">>
sxyz == <<"x", "y", "z">>

\* C1: while App is mounted, the list handed to List is exactly the stories
\* whose title contains the search term ignoring case, in the order of
\* stories, computed from the current stories and the current search term.
C1_RenderedIsDerived ==
  mounted =>
    IsSelection(list, stories,
                {i \in 1..Len(stories) : ContainsIgnoringCase(stories[i].title, value)})

\* C1 witness: with the term "RED" the row of Redux was dismissed; React
\* stays in stories and is hidden, the list is empty.
C1_Witness ==
  /\ mounted
  /\ lastEvent.type = "click"
  /\ lastEvent.error = "none"
  /\ value = sRED
  /\ list = <<>>
  /\ stories = <<initialStories[1]>>

\* C2: a removal leaves exactly the elements whose objectID differs from the
\* item's, in their order; with no such element the collection is unchanged;
\* no error is raised.
C2_RemoveExact ==
  call.fn = "remove" =>
    /\ IsSelection(stories, call.input,
                   {i \in 1..Len(call.input) :
                      call.input[i].objectID # call.arg.objectID})
    /\ (SameId(call.input, call.arg) = {} => stories = call.input)
    /\ lastEvent.error = "none"

\* C2 witness: the first and the last of three elements shared the objectID,
\* both went and the middle one stayed.
C2_Witness ==
  /\ call.fn = "remove"
  /\ SameId(call.input, call.arg) = {1, 3}
  /\ stories = <<call.input[2]>>

\* C3: after a click on a row's Dismiss button the row's item is no longer in
\* stories, in both builds.
C3_DismissRemovesItem ==
  lastEvent.type = "click" => lastEvent.arg \notin Range(stories)

\* C4: right after the mount the value is the store's entry for the hook's
\* key when there is one, and the default otherwise.
C4_InitialFromStoreKey ==
  (lastEvent.type = "mount" /\ "storage" \in Range(pendingEffects)) =>
    value = IF hasItem(localStorage, key) THEN localStorage[key] ELSE AppInitialState

\* C5: a mount over an empty store yields the default; once a changed value
\* was written back the store holds it under the key; a mount after a
\* write-back yields the value written.
C5_RoundTrip ==
  /\ (lastEvent.type = "mount" /\ DOMAIN localStorage = {} => value = AppInitialState)
  /\ (lastEvent.type = "change" /\ Idle =>
        hasItem(localStorage, key) /\ localStorage[key] = value)
  /\ (lastEvent.type = "mount" /\ lastWrite # <<>> /\ "storage" \in Range(pendingEffects) =>
        value = lastWrite[2])

\* C6: the write-back is queued by the first render and by every render that
\* changed the value or the key, and by no other render; it writes the
\* current value under the current key, so with no effect pending the store
\* holds the value under the key.
C6_WriteBack ==
  /\ [](Idle => hasItem(localStorage, key) /\ localStorage[key] = value)
  /\ [][ /\ (~mounted /\ mounted' => "storage" \in Range(pendingEffects'))
         /\ (mounted /\ mounted' /\ (value' # value \/ key' # key) =>
               "storage" \in Range(pendingEffects'))
         /\ (Idle /\ mounted' /\ value' = value /\ key' = key =>
               "storage" \notin Range(pendingEffects'))
         /\ (localStorage' # localStorage =>
               /\ localStorage' = setItem(localStorage, key, value)
               /\ lastWrite' = <<key, value>>) ]_vars

\* C6 witness: the key became "draft" while the value was "RED", the effect
\* ran and the store holds "RED" under "draft".
C6_Witness ==
  /\ Idle
  /\ lastEvent.type = "rekey"
  /\ key = "draft"
  /\ value = sRED
  /\ lastWrite = <<"draft", sRED>>
  /\ localStorage["draft"] = sRED

\* C7: a removal shortens the collection by the number of elements with the
\* item's objectID, and removing the same item again changes nothing.
C7_RemoveLengthIdempotent ==
  call.fn = "remove" =>
    /\ Len(stories) = Len(call.input) - Cardinality(SameId(call.input, call.arg))
    /\ removeFilter(stories, call.arg) = stories

\* C7 witness: two of three elements had the objectID; one element is left
\* and removing the item from it again leaves it as it is.
C7_Witness ==
  /\ call.fn = "remove"
  /\ Len(call.input) = 3
  /\ Cardinality(SameId(call.input, call.arg)) = 2
  /\ Len(stories) = 1
  /\ removeFilter(stories, call.arg) = stories

\* C8: focus() is called once per mount: never twice, and once the effects of
\* a render have run it has been called.
C8_FocusOnce ==
  /\ focusCalls <= 1
  /\ (Idle => focusCalls = 1)

\* C8 witness: the search term changed and a row was dismissed, the effects
\* ran, and focus() was called once.
C8_Witness ==
  /\ Idle
  /\ focusCalls = 1
  /\ lastEvent.type = "click"
  /\ lastEvent.error = "none"
  /\ value = sRed
  /\ lastWrite = <<AppKey, sRed>>

\* C9: the search term typed becomes the value as it is, and with the empty
\* term the list is the whole collection, whatever the collection is.
C9_EmptyFilterIdentity ==
  /\ (lastEvent.type = "change" => value = lastEvent.arg)
  /\ (mounted /\ value = <<>> => list = stories)

\* C9 witness: over a collection of three the term "xyz" was written back
\* and then the empty term was typed: all three are listed.
C9_Witness ==
  /\ lastEvent.type = "change"
  /\ lastEvent.arg = <<>>
  /\ lastWrite = <<AppKey, sxyz>>
  /\ value = <<>>
  /\ Len(stories) = 3
  /\ list = stories

\* C10: a change of the search term and a write-back leave stories alone, a
\* removal leaves the search term and the store alone; stories is always a
\* subsequence of the seed; a story the term hides stays in stories and is
\* listed again as soon as the term matches it.
C10_Independent ==
  /\ [](mounted => IsSubsequence(stories, initialStories))
  /\ [][ /\ (mounted /\ mounted' /\ value' # value => stories' = stories)
         /\ (localStorage' # localStorage => stories' = stories /\ value' = value)
         /\ (mounted /\ mounted' /\ stories' # stories =>
               value' = value /\ localStorage' = localStorage)
         /\ (mounted /\ mounted' =>
               \A it \in Range(stories) \ Range(list) :
                 ContainsIgnoringCase(it.title, value') /\ stories' = stories =>
                   it \in Range(list')) ]_vars

\* C10 witness: React was dismissed, "xyz" hid Redux, then "Red" was typed
\* and Redux is listed again; the write-back of "Red" is still pending.
C10_Witness ==
  /\ mounted
  /\ lastEvent.type = "change"
  /\ value = sRed
  /\ lastWrite = <<AppKey, sxyz>>
  /\ pendingEffects = <<"storage">>
  /\ stories = <<initialStories[2]>>
  /\ list = stories

====
